---------------------------- MODULE Spec2Model ----------------------------
(***************************************************************************)
(* VideoVault: record a video in the browser, store it in IndexedDB, and   *)
(* upload it to Cloudinary with bounded retries.                           *)
(*                                                                         *)
(* The model follows the three source files:                               *)
(*   db.js          (src/unnamed/part_000)  saveVideo, getVideos,          *)
(*                                          deleteVideo, updateVideo       *)
(*   cloudinary.js  (src/unnamed/part_001)  validateVideo,                 *)
(*                                          uploadToCloudinary, ...        *)
(*   App.jsx        (src/src/App.jsx)       recorder, uploadVideo,         *)
(*                                          handleDelete, UI guards        *)
(*                                                                         *)
(* JavaScript runs one task at a time.  An action of this model is one     *)
(* task together with the microtasks it triggers: an event handler, or the *)
(* completion of an IndexedDB request / XHR / timer followed by the code   *)
(* that was awaiting it, up to the next point where that code has to wait  *)
(* for a request, a timer or the network.                                  *)
(*                                                                         *)
(* Strings are modelled as sequences of tokens; String.includes and        *)
(* String.startsWith work on whole tokens, String.toLowerCase maps each    *)
(* token to its lower-case form.                                           *)
(***************************************************************************)
EXTENDS Integers, Sequences, FiniteSets, TLC

(***************************************************************************)
(* Bounds of the model.                                                    *)
(***************************************************************************)
\* number of recording sessions (clicks on "Start Recording")
MaxSessions == 2
\* number of uploadVideo invocations (clicks on "Upload to Cloud") in a run
\* that records, and in a run on a store that holds recordings already
MaxUploads == 1
MaxStoredUploads == 2
\* number of transient failures of the transport in one invocation chain,
\* in the runs that do not script the transport
MaxTransient == 1
\* number of uploadVideo invocations in a run with a scripted transport
MaxScriptedUploads == 1
\* number of confirmed deletions (clicks on the delete button)
MaxDeletes == 1
\* number of times the clock Date.now() advances
MaxClock == 1
\* number of changes of navigator.onLine
MaxNetChanges == 1
\* event.total of the upload progress events, in units of event.loaded
ProgressTotal == 2
\* the seconds the recording time is counted up to
MaxRecordingTime == 1

(***************************************************************************)
(* Program constants (cloudinary.js).                                      *)
(***************************************************************************)
MAX_FILE_SIZE == 104857600
UPLOAD_TIMEOUT == 300000
MAX_RETRIES == 3
RETRY_DELAY == 2000

(***************************************************************************)
(* Strings.                                                                *)
(***************************************************************************)
\* String.prototype.toLowerCase on one token
LowerTok(t) ==
  CASE t = "Network error" -> "network error"
    [] t = "Upload " -> "upload "
    [] t = "Upload cancelled" -> "upload cancelled"
    [] t = "No internet " -> "no internet "
    [] t = "Cloudinary credentials " -> "cloudinary credentials "
    [] t = "Video file is empty" -> "video file is empty"
    [] t = "Video size (" -> "video size ("
    [] t = "Invalid file type. Expected video file" ->
           "invalid file type. expected video file"
    [] t = "Upload failed with " -> "upload failed with "
    [] t = "Unexpected token" -> "unexpected token"
    [] t = "Video not found in local storage" ->
           "video not found in local storage"
    [] t = "Gateway " -> "gateway "
    [] t = "Connection" -> "connection"
    [] t = "ECONNRESET" -> "econnreset"
    [] t = "ETIMEDOUT" -> "etimedout"
    [] t = ". Video saved locally and will be uploaded when online" ->
           ". video saved locally and will be uploaded when online"
    [] t = ". Please try again with a shorter video" ->
           ". please try again with a shorter video"
    [] t = ". Please check .env file" -> ". please check .env file"
    [] t = " Bytes" -> " bytes"
    [] t = " KB" -> " kb"
    [] t = " MB" -> " mb"
    [] t = " GB" -> " gb"
    [] OTHER -> t

toLowerCase(s) == [i \in 1..Len(s) |-> LowerTok(s[i])]

includes(s, t) == \E i \in 1..Len(s) : s[i] = t

startsWith(s, t) == Len(s) >= 1 /\ s[1] = t

\* the value of a missing property, and the empty string: both falsy
Undefined == <<>>

(***************************************************************************)
(* The messages of the errors the program creates.                         *)
(***************************************************************************)
MsgNotConfigured ==
  <<"Cloudinary credentials ", "not configured", ". Please check .env file">>

MsgOffline ==
  <<"No internet ", "connection",
    ". Video saved locally and will be uploaded when online">>

MsgNetwork == <<"Network error", " during upload">>

MsgTimeout ==
  <<"Upload ", "timeout", ". Please try again with a shorter video">>

MsgCancelled == <<"Upload cancelled">>

MsgNotFound == <<"Video not found in local storage">>

\* the message of the error a rejected getUserMedia carries
MsgDenied == <<"Permission denied">>

\* the SyntaxError of JSON.parse
MsgSyntax == <<"Unexpected token">>

\* the decimal digits of a status code
StatusText(n) ==
  CASE n = 200 -> "200"
    [] n = 400 -> "400"
    [] n = 503 -> "503"
    [] OTHER -> "???"

MsgStatus(n) == <<"Upload failed with ", "status ", StatusText(n)>>

(***************************************************************************)
(* formatBytes (cloudinary.js): the number with two decimals, written in   *)
(* hundredths, and the unit.                                               *)
(***************************************************************************)
RECURSIVE Pow(_, _)
Pow(b, e) == IF e = 0 THEN 1 ELSE b * Pow(b, e - 1)

\* Math.floor(Math.log(bytes) / Math.log(1024)) for bytes >= 1
RECURSIVE Log1024(_)
Log1024(bytes) == IF bytes < 1024 THEN 0 ELSE 1 + Log1024(bytes \div 1024)

sizes == <<" Bytes", " KB", " MB", " GB">>

formatBytes(bytes) ==
  IF bytes = 0 THEN <<"0", " Bytes">>
  ELSE LET i == Log1024(bytes)
           p == Pow(1024, i)
           \* the fraction of a unit is taken in 1024ths of the unit
           q == IF i = 0 THEN 1 ELSE p \div 1024
           f == (bytes % p) \div q
           d == IF i = 0 THEN 1 ELSE 1024
           \* (bytes / k^i).toFixed(2), rounded half up, in hundredths
           h == (bytes \div p) * 100 + (f * 200 + d) \div (2 * d)
       IN  <<ToString(h), IF i + 1 <= Len(sizes) THEN sizes[i + 1] ELSE " undefined">>

(***************************************************************************)
(* Blobs.  A blob has its data (the chunks it was built from), its size in *)
(* bytes and its media type.                                               *)
(***************************************************************************)
TypeWebm == <<"video/", "webm">>
TypePng == <<"image/", "png">>

RECURSIVE SumSizes(_)
SumSizes(chunks) ==
  IF chunks = <<>> THEN 0 ELSE Head(chunks).size + SumSizes(Tail(chunks))

\* new Blob(chunks, { type })
NewBlob(chunks, type) ==
  [data |-> chunks, size |-> SumSizes(chunks), type |-> type]

(***************************************************************************)
(* validateVideo (cloudinary.js): the list of error messages.              *)
(***************************************************************************)
MsgEmpty == <<"Video file is empty">>

MsgTooLarge(size) ==
  <<"Video size (">> \o formatBytes(size) \o <<") ", "exceeds limit", " (">>
    \o formatBytes(MAX_FILE_SIZE) \o <<")">>

MsgBadType == <<"Invalid file type. Expected video file">>

\* a variant that rejects the limit itself, to test the properties against
validateVideoExclusive(blob) ==
  LET e1 == IF blob.size = 0 THEN <<MsgEmpty>> ELSE <<>>
      e2 == IF blob.size >= MAX_FILE_SIZE THEN <<MsgTooLarge(blob.size)>> ELSE <<>>
      e3 == IF ~startsWith(blob.type, "video/") THEN <<MsgBadType>> ELSE <<>>
      errors == e1 \o e2 \o e3
  IN  [valid |-> Len(errors) = 0, errors |-> errors]

validateVideo(blob) ==
  LET e1 == IF blob.size = 0 THEN <<MsgEmpty>> ELSE <<>>
      e2 == IF blob.size > MAX_FILE_SIZE THEN <<MsgTooLarge(blob.size)>> ELSE <<>>
      e3 == IF ~startsWith(blob.type, "video/") THEN <<MsgBadType>> ELSE <<>>
      errors == e1 \o e2 \o e3
  IN  [valid |-> Len(errors) = 0, errors |-> errors]

\* Array.prototype.join('. ') on a list of messages
RECURSIVE join(_)
join(errors) ==
  IF Len(errors) = 0 THEN <<>>
  ELSE IF Len(errors) = 1 THEN errors[1]
  ELSE errors[1] \o <<". ">> \o join(Tail(errors))

(***************************************************************************)
(* isRetryableError (cloudinary.js).                                       *)
(***************************************************************************)
retryableMessages ==
  <<"network error", "failed to fetch", "timeout", "connection",
    "ECONNRESET", "ETIMEDOUT">>

\* a variant that compares the message as it is, to test the properties
\* against
isRetryableErrorCaseSensitive(message) ==
  \E k \in 1..Len(retryableMessages) : includes(message, retryableMessages[k])

isRetryableError(message) ==
  \E k \in 1..Len(retryableMessages) :
    includes(toLowerCase(message), retryableMessages[k])

(***************************************************************************)
(* The transport: what one XMLHttpRequest can end with.                    *)
(***************************************************************************)
\* response bodies (xhr.responseText)
BodyUploaded ==
  [json |-> TRUE, secure_url |-> <<"https://res/v1">>, public_id |-> <<"pid1">>,
   error |-> Undefined]

BodyEmptyObject ==
  [json |-> TRUE, secure_url |-> Undefined, public_id |-> Undefined,
   error |-> Undefined]

BodyNotJson ==
  [json |-> FALSE, secure_url |-> Undefined, public_id |-> Undefined,
   error |-> Undefined]

\* {"error": {"message": m}}
BodyError(m) ==
  [json |-> TRUE, secure_url |-> Undefined, public_id |-> Undefined,
   error |-> m]

\* messages a host may put in an error body
HostBadPreset == <<"bad preset">>
HostGatewayTimeout == <<"Gateway ", "timeout">>
HostConnReset == <<"ECONNRESET">>

HostMessages == {HostBadPreset, HostGatewayTimeout, HostConnReset}

Bodies ==
  {BodyUploaded, BodyEmptyObject, BodyNotJson} \cup {BodyError(m) : m \in HostMessages}

Statuses == {200, 400, 503}

OnLoad(status, body) == [ev |-> "load", status |-> status, body |-> body]
OnError == [ev |-> "error", status |-> 0, body |-> BodyNotJson]
OnTimeout == [ev |-> "timeout", status |-> 0, body |-> BodyNotJson]

\* every way an XMLHttpRequest of uploadWithProgress settles (abort is never
\* requested by the program)
Outcomes ==
  {OnLoad(st, b) : st \in Statuses, b \in Bodies} \cup {OnError, OnTimeout}

\* uploadWithProgress: the 'load' listener's response.ok
ResponseOk(o) == o.status >= 200 /\ o.status < 300

\* uploadWithProgress: Math.round((event.loaded / event.total) * 100)
percentComplete(loaded, total) == (loaded * 200 + total) \div (2 * total)

(***************************************************************************)
(* uploadToCloudinary (cloudinary.js).                                     *)
(***************************************************************************)
NoError == <<>>

\* a variant without the connectivity check, to test the properties against
PreconditionErrorNoOnlineCheck(cfg, blob, onl) ==
  IF ~cfg THEN MsgNotConfigured
  ELSE IF ~validateVideo(blob).valid THEN join(validateVideo(blob).errors)
  ELSE NoError

\* a variant that checks the connectivity first, to test the properties
\* against
PreconditionErrorOnlineFirst(cfg, blob, onl) ==
  IF ~onl THEN MsgOffline
  ELSE IF ~cfg THEN MsgNotConfigured
  ELSE IF ~validateVideo(blob).valid THEN join(validateVideo(blob).errors)
  ELSE NoError

\* lines 46-60: the error the preconditions throw, NoError when they pass
PreconditionError(cfg, blob, onl) ==
  IF ~cfg THEN MsgNotConfigured
  ELSE IF ~validateVideo(blob).valid THEN join(validateVideo(blob).errors)
  ELSE IF ~onl THEN MsgOffline
  ELSE NoError

NoResult == [success |-> FALSE, url |-> Undefined, publicId |-> Undefined]

\* lines 69-84: the try block, once the XMLHttpRequest has settled as o:
\* the value returned, or the error thrown inside the try
TryBlock(o) ==
  IF o.ev = "error" THEN [threw |-> TRUE, error |-> MsgNetwork, result |-> NoResult]
  ELSE IF o.ev = "timeout"
    THEN [threw |-> TRUE, error |-> MsgTimeout, result |-> NoResult]
  ELSE IF ~ResponseOk(o)
    THEN LET errorData == IF o.body.json THEN o.body ELSE BodyEmptyObject
         IN  [threw |-> TRUE,
              error |-> IF errorData.error # Undefined THEN errorData.error
                        ELSE MsgStatus(o.status),
              result |-> NoResult]
  ELSE IF ~o.body.json
    THEN [threw |-> TRUE, error |-> MsgSyntax, result |-> NoResult]
  ELSE [threw |-> FALSE, error |-> NoError,
        result |-> [success |-> TRUE, url |-> o.body.secure_url,
                    publicId |-> o.body.public_id]]

\* variants of the retry condition, to test the properties against: one
\* that counts the retries with <=, one that gives up one retry early, one
\* that retries whatever the error
ShouldRetryInclusive(retryCount, error) ==
  retryCount <= MAX_RETRIES /\ \E k \in 1..Len(retryableMessages) :
                                includes(toLowerCase(error), retryableMessages[k])

ShouldRetryShort(retryCount, error) ==
  retryCount < MAX_RETRIES - 1 /\ \E k \in 1..Len(retryableMessages) :
                                   includes(toLowerCase(error), retryableMessages[k])

ShouldRetryAny(retryCount, error) == retryCount < MAX_RETRIES

\* lines 85-94: the catch block retries
ShouldRetry(retryCount, error) ==
  retryCount < MAX_RETRIES /\ isRetryableError(error)

\* a variant that doubles the wait, to test the properties against
RetryWaitExponential(retryCount) == RETRY_DELAY * Pow(2, retryCount)

\* line 89: the wait before the retry
RetryWait(retryCount) == RETRY_DELAY * (retryCount + 1)

(***************************************************************************)
(* State.                                                                  *)
(***************************************************************************)
VARIABLES
  now,             \* Date.now()
  navOnLine,       \* navigator.onLine
  netChanges,      \* how often navigator.onLine has changed
  online,          \* App state `online`, set by the online/offline events
  configured,      \* both VITE_CLOUDINARY_* values are set
  store,           \* the object store 'videos': id -> video
  dbq,             \* the IndexedDB requests issued and not yet executed
  videos,          \* App state `videos`: the list shown
  recording,       \* App state `recording`
  stream,          \* App state `stream`: the session whose stream it holds
  mediaRecorderRef,\* mediaRecorderRef.current: the session of that recorder
  chunksRef,       \* chunksRef.current
  sess,            \* the recording sessions (startRecording invocations)
  nSess,           \* sessions started
  timerRef,        \* timerRef.current: the session that set the interval
  timers,          \* the sessions whose setInterval has not been cleared
  recordingTime,   \* App state `recordingTime`
  cameraError,     \* App state `cameraError`: a message, NoError for null
  uploadingId,     \* App state `uploadingId`
  uploadProgress,  \* App state `uploadProgress`: id -> percent
  up,              \* the uploadVideo invocations
  nUp,             \* uploadVideo invocations started
  nDel,            \* deletions confirmed
  script,          \* what the transport does on its 1st, 2nd, ... request
  savedLog,        \* history: the videos saveVideo has put
  confirmedLog,    \* history: <<id, blob>> of uploadToCloudinary's successes
  deletedLog       \* history: the ids deleteVideo has deleted

vars ==
  <<now, navOnLine, netChanges, online, configured, store, dbq, videos,
    recording, stream, mediaRecorderRef, chunksRef, sess, nSess, timerRef,
    timers, recordingTime, cameraError, uploadingId,
    uploadProgress, up, nUp, nDel, script, savedLog, confirmedLog, deletedLog>>

envVars == <<now, navOnLine, netChanges, online, configured, script>>
timeVars == <<timerRef, timers, recordingTime>>
recVars ==
  <<recording, stream, mediaRecorderRef, chunksRef, sess, nSess, timerRef,
    timers, recordingTime, cameraError>>
logVars == <<savedLog, deletedLog>>
upVars == <<uploadingId, uploadProgress, up, nUp, confirmedLog>>

Sessions == 1..MaxSessions
Max(a, b) == IF a > b THEN a ELSE b
Uploads == 1..Max(MaxUploads, Max(MaxStoredUploads, MaxScriptedUploads))

\* null
Null == 0

\* the empty object {} and the empty list []
Empty == <<>>

\* a function with key k set to v, as { ...f, [k]: v } and as IndexedDB's put
Put(f, k, v) == [x \in (DOMAIN f) \cup {k} |-> IF x = k THEN v ELSE f[x]]

\* a function without key k, as `delete f[k]`
Remove(f, k) == [x \in (DOMAIN f) \ {k} |-> f[x]]

(***************************************************************************)
(* IndexedDB.  Every db.put / db.get / db.getAll / db.delete of idb is a   *)
(* transaction of its own on the one object store; the transactions take   *)
(* effect in the order in which they were created.                         *)
(***************************************************************************)
NoVideo == [id |-> Null, blob |-> NewBlob(<<>>, <<>>), createdAt |-> 0,
            uploaded |-> FALSE]

\* a request: the operation, who awaits it (kind "S": a recording session,
\* "U": an uploadVideo invocation, "D": handleDelete), and its argument
Request(op, kind, n, id, video) ==
  [op |-> op, kind |-> kind, n |-> n, id |-> id, video |-> video]

\* the request at the head of the queue is this one
IsNext(op, kind, n) ==
  /\ dbq # <<>>
  /\ Head(dbq).op = op
  /\ Head(dbq).kind = kind
  /\ Head(dbq).n = n

\* db.delete(STORE_NAME, id): the store without the key
Delete(st, id) == [x \in (DOMAIN st) \ {id} |-> st[x]]

\* db.get(STORE_NAME, id): the video, NoVideo for undefined
Get(id) == IF id \in DOMAIN store THEN store[id] ELSE NoVideo

\* a variant with the predicate v => v.id = id, which every video
\* satisfies, to test the properties against
FindFirst(videoList, id) ==
  IF DOMAIN videoList = {} THEN NoVideo
  ELSE videoList[CHOOSE x \in DOMAIN videoList : \A y \in DOMAIN videoList : x <= y]

\* videoList.find(v => v.id === id), NoVideo for undefined
Find(videoList, id) ==
  IF id \in DOMAIN videoList THEN videoList[id] ELSE NoVideo

(***************************************************************************)
(* The environment: the clock and the network signal.                      *)
(***************************************************************************)
Tick ==
  /\ now' = now + 1
  /\ UNCHANGED <<navOnLine, netChanges, online, configured, script, store, dbq,
                 videos, savedLog, deletedLog>>
  /\ UNCHANGED recVars
  /\ UNCHANGED upVars
  /\ UNCHANGED nDel

\* navigator.onLine changes
NetChange ==
  /\ navOnLine' = ~navOnLine
  /\ netChanges' = netChanges + 1
  /\ UNCHANGED <<now, online, configured, script, store, dbq, videos, savedLog, deletedLog>>
  /\ UNCHANGED recVars
  /\ UNCHANGED upVars
  /\ UNCHANGED nDel

\* App.jsx 26-37: handleOnline / handleOffline
OnlineEvent ==
  /\ online # navOnLine
  /\ online' = navOnLine
  /\ UNCHANGED <<now, navOnLine, netChanges, configured, script, store, dbq,
                 videos, savedLog, deletedLog>>
  /\ UNCHANGED recVars
  /\ UNCHANGED upVars
  /\ UNCHANGED nDel

(***************************************************************************)
(* The recorder (App.jsx 53-129).                                          *)
(***************************************************************************)
\* click on "Start Recording", shown while !recording: startRecording up to
\* the await of getUserMedia
StartRecording ==
  /\ ~recording
  /\ nSess' = nSess + 1
  /\ sess' = [sess EXCEPT ![nSess + 1].pc = "acquiring"]
  /\ UNCHANGED <<recording, stream, mediaRecorderRef, chunksRef>>
  /\ UNCHANGED timeVars
  /\ cameraError' = NoError
  /\ UNCHANGED envVars
  /\ UNCHANGED upVars
  /\ UNCHANGED <<store, dbq, videos, nDel, savedLog, deletedLog>>

\* getUserMedia rejects: the catch of startRecording
GetUserMediaReject(s) ==
  /\ sess[s].pc = "acquiring"
  /\ sess' = [sess EXCEPT ![s].pc = "denied"]
  /\ UNCHANGED <<recording, stream, mediaRecorderRef, chunksRef, nSess>>
  /\ UNCHANGED timeVars
  /\ cameraError' = MsgDenied
  /\ UNCHANGED envVars
  /\ UNCHANGED upVars
  /\ UNCHANGED <<store, dbq, videos, nDel, savedLog, deletedLog>>

\* getUserMedia resolves: the rest of startRecording.  setStream makes the
\* effect of lines 40-46 stop the tracks of the stream held before, and a
\* MediaRecorder whose tracks have all ended stops.
GetUserMediaResolve(s) ==
  /\ sess[s].pc = "acquiring"
  /\ stream' = s
  /\ chunksRef' = Empty
  /\ mediaRecorderRef' = s
  /\ recording' = TRUE
  /\ sess' = [t \in Sessions |->
               IF t = s THEN [sess[t] EXCEPT !.pc = "capturing"]
               ELSE IF t = stream
                 THEN [sess[t] EXCEPT !.released = TRUE,
                                      !.pc = IF @ = "capturing" THEN "stopping" ELSE @]
               ELSE sess[t]]
  /\ recordingTime' = 0
  /\ timers' = timers \cup {s}
  /\ timerRef' = s
  /\ UNCHANGED nSess
  /\ UNCHANGED cameraError
  /\ UNCHANGED envVars
  /\ UNCHANGED upVars
  /\ UNCHANGED <<store, dbq, videos, nDel, savedLog, deletedLog>>

\* click on "Stop Recording", shown while recording: stopRecording.
\* MediaRecorder.stop() throws when the recorder is inactive.
StopRecording ==
  /\ recording
  /\ IF mediaRecorderRef # Null /\ sess[mediaRecorderRef].pc = "capturing"
       THEN /\ sess' = [sess EXCEPT ![mediaRecorderRef].pc = "stopping"]
            /\ recording' = FALSE
       ELSE UNCHANGED <<sess, recording>>
  /\ UNCHANGED <<stream, mediaRecorderRef, chunksRef, nSess>>
  /\ UNCHANGED timeVars
  /\ UNCHANGED cameraError
  /\ UNCHANGED envVars
  /\ UNCHANGED upVars
  /\ UNCHANGED <<store, dbq, videos, nDel, savedLog, deletedLog>>

\* the dataavailable event of a stopped recorder: ondataavailable
DataAvailable(s, size) ==
  /\ sess[s].pc = "stopping"
  /\ chunksRef' = IF size > 0 THEN Append(chunksRef, [s |-> s, size |-> size])
                  ELSE chunksRef
  /\ sess' = [sess EXCEPT ![s].pc = "stopped",
                           ![s].delivered =
                              IF size > 0 THEN Append(@, [s |-> s, size |-> size])
                              ELSE @]
  /\ UNCHANGED <<recording, stream, mediaRecorderRef, nSess>>
  /\ UNCHANGED timeVars
  /\ UNCHANGED cameraError
  /\ UNCHANGED envVars
  /\ UNCHANGED upVars
  /\ UNCHANGED <<store, dbq, videos, nDel, savedLog, deletedLog>>

\* db.js 23-33: the video saveVideo builds
NewVideo(blob, t) ==
  [id |-> t, blob |-> blob, createdAt |-> t, uploaded |-> FALSE]

\* the callback of the interval of lines 114-116
IntervalTick ==
  /\ timers # {}
  /\ recordingTime' = recordingTime + 1
  /\ UNCHANGED <<recording, stream, mediaRecorderRef, chunksRef, sess, nSess,
                 timerRef, timers>>
  /\ UNCHANGED cameraError
  /\ UNCHANGED envVars
  /\ UNCHANGED upVars
  /\ UNCHANGED <<store, dbq, videos, nDel, savedLog, deletedLog>>

\* the stop event: onstop up to the await of saveVideo (the interval is
\* cleared and recordingTime reset first), and saveVideo up to its db.put
OnStop(s) ==
  /\ sess[s].pc = "stopped"
  /\ timers' = timers \ {timerRef}
  /\ recordingTime' = 0
  /\ UNCHANGED timerRef
  /\ LET video == NewVideo(NewBlob(chunksRef, TypeWebm), now)
     IN  /\ dbq' = Append(dbq, Request("put", "S", s, video.id, video))
         /\ sess' = [sess EXCEPT ![s].pc = "saving", ![s].saved = video]
  /\ UNCHANGED <<recording, stream, mediaRecorderRef, chunksRef, nSess>>
  /\ UNCHANGED cameraError
  /\ UNCHANGED envVars
  /\ UNCHANGED upVars
  /\ UNCHANGED <<store, videos, nDel, savedLog, deletedLog>>

\* the db.put of saveVideo succeeds; onstop goes on to loadVideos, up to
\* the db.getAll of getVideos
SaveVideoPut(s) ==
  /\ IsNext("put", "S", s)
  /\ sess[s].pc = "saving"
  /\ store' = Put(store, Head(dbq).video.id, Head(dbq).video)
  /\ savedLog' = savedLog \cup {Head(dbq).video}
  /\ UNCHANGED deletedLog
  /\ dbq' = Append(Tail(dbq), Request("getAll", "S", s, Null, NoVideo))
  /\ sess' = [sess EXCEPT ![s].pc = "loading"]
  /\ UNCHANGED <<recording, stream, mediaRecorderRef, chunksRef, nSess>>
  /\ UNCHANGED timeVars
  /\ UNCHANGED cameraError
  /\ UNCHANGED envVars
  /\ UNCHANGED upVars
  /\ UNCHANGED <<videos, nDel>>

\* the db.put of saveVideo fails (quota, storage unavailable): saveVideo
\* rejects and so does onstop, whose promise nobody awaits
SaveVideoFail(s) ==
  /\ IsNext("put", "S", s)
  /\ sess[s].pc = "saving"
  /\ dbq' = Tail(dbq)
  /\ sess' = [sess EXCEPT ![s].pc = "failed"]
  /\ UNCHANGED <<recording, stream, mediaRecorderRef, chunksRef, nSess>>
  /\ UNCHANGED timeVars
  /\ UNCHANGED cameraError
  /\ UNCHANGED envVars
  /\ UNCHANGED upVars
  /\ UNCHANGED <<store, videos, nDel, savedLog, deletedLog>>

\* the db.getAll of loadVideos resolves: setVideos, and the clean-up of
\* onstop (lines 99-105)
OnStopLoaded(s) ==
  /\ IsNext("getAll", "S", s)
  /\ sess[s].pc = "loading"
  /\ dbq' = Tail(dbq)
  /\ videos' = store
  /\ chunksRef' = Empty
  /\ stream' = Null
  /\ sess' = [t \in Sessions |->
               IF t = s THEN [sess[t] EXCEPT !.pc = "done", !.released = TRUE]
               ELSE IF t = stream
                 THEN [sess[t] EXCEPT !.released = TRUE,
                                      !.pc = IF @ = "capturing" THEN "stopping" ELSE @]
               ELSE sess[t]]
  /\ UNCHANGED <<recording, mediaRecorderRef, nSess>>
  /\ UNCHANGED timeVars
  /\ UNCHANGED cameraError
  /\ UNCHANGED envVars
  /\ UNCHANGED upVars
  /\ UNCHANGED <<store, nDel, savedLog, deletedLog>>

(***************************************************************************)
(* uploadVideo (App.jsx 137-204) with uploadToCloudinary and updateVideo.  *)
(***************************************************************************)
Pending == [state |-> "pending", error |-> NoError, value |-> NoResult]
Returned(r) == [state |-> "returned", error |-> NoError, value |-> r]
Threw(e) == [state |-> "threw", error |-> e, value |-> NoResult]

NoUpload ==
  [pc |-> "unused", id |-> Null, captured |-> Empty, blob |-> NoVideo.blob,
   inStore |-> FALSE, retryCount |-> 0, attempts |-> 0, loaded |-> -1,
   lastP |-> -1, mono |-> TRUE, waited |-> 0, res |-> Pending,
   outcome |-> "none"]

\* the catch and the finally of uploadVideo after error e was thrown
Failed(u, e) ==
  [up[u] EXCEPT !.pc = "settled", !.res = Threw(e), !.outcome = "failed"]

\* uploadToCloudinary(blob, onProgress, retryCount) from its first line to
\* its first await: the preconditions, then the XMLHttpRequest is sent
\* (inStore notes whether the id was in the store when the blob was read)
Invoke(u, blob, retryCount, stored) ==
  LET e == PreconditionError(configured, blob, navOnLine)
  IN  IF e # NoError
        THEN /\ up' = [up EXCEPT ![u] = [Failed(u, e) EXCEPT !.blob = blob,
                                           !.inStore = stored,
                                           !.retryCount = retryCount]]
             /\ uploadingId' = Null
        ELSE /\ up' = [up EXCEPT ![u].pc = "xhr", ![u].blob = blob,
                                 ![u].inStore = stored,
                                 ![u].retryCount = retryCount,
                                 ![u].attempts = @ + 1, ![u].loaded = -1]
             /\ UNCHANGED uploadingId

\* click on "Upload to Cloud" of a listed video (shown while !video.uploaded,
\* disabled while uploadingId === video.id or !online): uploadVideo up to
\* the db.getAll of getVideos
UploadVideo(id) ==
  /\ id \in DOMAIN videos
  /\ ~videos[id].uploaded
  /\ uploadingId # id
  /\ online
  /\ IF ~navOnLine
       THEN UNCHANGED <<uploadingId, uploadProgress, up, nUp, dbq>>
       ELSE /\ uploadingId' = id
            /\ uploadProgress' = Put(uploadProgress, id, 0)
            /\ nUp' = nUp + 1
            /\ up' = [up EXCEPT ![nUp + 1] =
                        [NoUpload EXCEPT !.pc = "getVideos", !.id = id,
                                         !.captured = uploadProgress]]
            /\ dbq' = Append(dbq, Request("getAll", "U", nUp + 1, Null, NoVideo))
  /\ UNCHANGED envVars
  /\ UNCHANGED recVars
  /\ UNCHANGED <<store, videos, nDel, savedLog, deletedLog, confirmedLog>>

\* getVideos resolves: the video is looked up and uploadToCloudinary called
UploadGetVideos(u) ==
  /\ IsNext("getAll", "U", u)
  /\ up[u].pc = "getVideos"
  /\ dbq' = Tail(dbq)
  /\ LET video == Find(store, up[u].id)
     IN  IF video = NoVideo
           THEN /\ up' = [up EXCEPT ![u] = Failed(u, MsgNotFound)]
                /\ uploadingId' = Null
           ELSE Invoke(u, video.blob, 0, up[u].id \in DOMAIN store)
  /\ UNCHANGED envVars
  /\ UNCHANGED recVars
  /\ UNCHANGED <<store, videos, nDel, savedLog, deletedLog, confirmedLog, uploadProgress, nUp>>

\* a progress event of xhr.upload: onProgress(percentComplete), which is the
\* callback of uploadVideo (lines 159-161)
XhrProgress(u, loaded) ==
  /\ up[u].pc = "xhr"
  /\ loaded > up[u].loaded
  /\ LET percent == percentComplete(loaded, ProgressTotal)
     IN  /\ up' = [up EXCEPT ![u].loaded = loaded, ![u].lastP = percent,
                              ![u].mono = @ /\ percent >= up[u].lastP]
         /\ uploadProgress' = Put(up[u].captured, up[u].id, percent)
  /\ UNCHANGED envVars
  /\ UNCHANGED recVars
  /\ UNCHANGED <<store, dbq, videos, nDel, savedLog, deletedLog, confirmedLog, uploadingId, nUp>>

\* what a scripted transport does on the n-th request of a chain: a
\* transport keeps to its last entry once the script is used up
Scripted(n) == IF n <= Len(script) THEN script[n] ELSE script[Len(script)]

\* the XMLHttpRequest settles as o: the rest of the try block, the catch
\* block up to its sleep, and in uploadVideo either updateVideo up to its
\* db.get or the catch and the finally.  A response arrives after the whole
\* body was sent, which the last progress event has reported.
XhrSettle(u, o) ==
  /\ up[u].pc = "xhr"
  /\ script # <<>> => o = Scripted(up[u].attempts)
  /\ (o.ev = "load" /\ ResponseOk(o)) => up[u].loaded = ProgressTotal
  /\ LET t == TryBlock(o)
     IN  IF ~t.threw
           THEN /\ up' = [up EXCEPT ![u].pc = "updGet", ![u].res = Returned(t.result)]
                /\ confirmedLog' = confirmedLog \cup {<<up[u].id, up[u].blob>>}
                /\ dbq' = Append(dbq, Request("get", "U", u, up[u].id, NoVideo))
                /\ UNCHANGED uploadingId
         ELSE IF ShouldRetry(up[u].retryCount, t.error)
           THEN /\ up' = [up EXCEPT ![u].pc = "sleep", ![u].res = Threw(t.error)]
                /\ UNCHANGED <<confirmedLog, dbq, uploadingId>>
         ELSE /\ up' = [up EXCEPT ![u] = Failed(u, t.error)]
              /\ uploadingId' = Null
              /\ UNCHANGED <<confirmedLog, dbq>>
  /\ UNCHANGED envVars
  /\ UNCHANGED recVars
  /\ UNCHANGED <<store, videos, nDel, savedLog, deletedLog, uploadProgress, nUp>>

\* the sleep of the catch block is over: uploadToCloudinary is called again
RetryAfterSleep(u) ==
  /\ up[u].pc = "sleep"
  /\ \E w \in {RetryWait(up[u].retryCount)} :
       LET e == PreconditionError(configured, up[u].blob, navOnLine)
       IN  IF e # NoError
             THEN /\ up' = [up EXCEPT ![u] =
                              [Failed(u, e) EXCEPT !.retryCount = @ + 1,
                                                   !.waited = @ + w]]
                  /\ uploadingId' = Null
             ELSE /\ up' = [up EXCEPT ![u].pc = "xhr", ![u].retryCount = @ + 1,
                                      ![u].attempts = @ + 1, ![u].loaded = -1,
                                      ![u].waited = @ + w, ![u].res = Pending]
                  /\ UNCHANGED uploadingId
  /\ UNCHANGED envVars
  /\ UNCHANGED recVars
  /\ UNCHANGED <<store, dbq, videos, nDel, savedLog, deletedLog, confirmedLog, uploadProgress, nUp>>

\* variants of the write-back, to test the properties against: one that
\* writes a record of the id and the flag only, one that keeps the flag
UpdatedFresh(video, uploaded) ==
  [NoVideo EXCEPT !.id = video.id, !.uploaded = uploaded]

UpdatedKeep(video, uploaded) == [video EXCEPT !.uploaded = video.uploaded]

\* db.js 64-66: what updateVideo writes back
Updated(video, uploaded) == [video EXCEPT !.uploaded = uploaded]

\* the db.get of updateVideo resolves: the db.put is issued when the video
\* exists, otherwise updateVideo returns and uploadVideo goes on to
\* loadVideos
UpdateVideoGet(u) ==
  /\ IsNext("get", "U", u)
  /\ up[u].pc = "updGet"
  /\ LET video == Get(up[u].id)
     IN  IF video # NoVideo
           THEN /\ dbq' = Append(Tail(dbq),
                                 Request("put", "U", u, up[u].id, Updated(video, TRUE)))
                /\ up' = [up EXCEPT ![u].pc = "updPut"]
           ELSE /\ dbq' = Append(Tail(dbq), Request("getAll", "U", u, Null, NoVideo))
                /\ up' = [up EXCEPT ![u].pc = "loading"]
  /\ UNCHANGED envVars
  /\ UNCHANGED recVars
  /\ UNCHANGED <<store, videos, nDel, savedLog, deletedLog, confirmedLog, uploadingId,
                 uploadProgress, nUp>>

\* the db.put of updateVideo succeeds; uploadVideo goes on to loadVideos
UpdateVideoPut(u) ==
  /\ IsNext("put", "U", u)
  /\ up[u].pc = "updPut"
  /\ store' = Put(store, Head(dbq).video.id, Head(dbq).video)
  /\ dbq' = Append(Tail(dbq), Request("getAll", "U", u, Null, NoVideo))
  /\ up' = [up EXCEPT ![u].pc = "loading"]
  /\ UNCHANGED envVars
  /\ UNCHANGED recVars
  /\ UNCHANGED <<videos, nDel, savedLog, deletedLog, confirmedLog, uploadingId, uploadProgress, nUp>>

\* loadVideos resolves: lines 168-171, then the finally
UploadLoaded(u) ==
  /\ IsNext("getAll", "U", u)
  /\ up[u].pc = "loading"
  /\ dbq' = Tail(dbq)
  /\ videos' = store
  /\ uploadProgress' = Put(up[u].captured, up[u].id, 100)
  /\ up' = [up EXCEPT ![u].pc = "settled", ![u].outcome = "success"]
  /\ uploadingId' = Null
  /\ UNCHANGED envVars
  /\ UNCHANGED recVars
  /\ UNCHANGED <<store, nDel, savedLog, deletedLog, confirmedLog, nUp>>

\* the timer of the finally (lines 196-202) fires
ClearProgress(u) ==
  /\ up[u].pc = "settled"
  /\ uploadProgress' = Remove(uploadProgress, up[u].id)
  /\ up' = [up EXCEPT ![u] = [NoUpload EXCEPT !.pc = "done", !.id = up[u].id,
                                               !.outcome = up[u].outcome]]
  /\ UNCHANGED envVars
  /\ UNCHANGED recVars
  /\ UNCHANGED <<store, dbq, videos, nDel, savedLog, deletedLog, confirmedLog, uploadingId, nUp>>

(***************************************************************************)
(* handleDelete (App.jsx 206-211).                                         *)
(***************************************************************************)
\* click on the delete button of a listed video (disabled while
\* uploadingId === video.id), confirmed: up to the db.delete of deleteVideo
HandleDelete(id) ==
  /\ id \in DOMAIN videos
  /\ uploadingId # id
  /\ nDel' = nDel + 1
  /\ dbq' = Append(dbq, Request("delete", "D", 0, id, NoVideo))
  /\ UNCHANGED envVars
  /\ UNCHANGED recVars
  /\ UNCHANGED upVars
  /\ UNCHANGED <<store, videos, savedLog, deletedLog>>

\* the db.delete of deleteVideo is done; handleDelete goes on to loadVideos
DeleteVideoDone ==
  /\ IsNext("delete", "D", 0)
  /\ store' = Delete(store, Head(dbq).id)
  /\ deletedLog' = deletedLog \cup {Head(dbq).id}
  /\ dbq' = Append(Tail(dbq), Request("getAll", "D", 0, Null, NoVideo))
  /\ UNCHANGED envVars
  /\ UNCHANGED recVars
  /\ UNCHANGED upVars
  /\ UNCHANGED <<videos, nDel, savedLog>>

\* loadVideos of handleDelete resolves
DeleteLoaded ==
  /\ IsNext("getAll", "D", 0)
  /\ dbq' = Tail(dbq)
  /\ videos' = store
  /\ UNCHANGED envVars
  /\ UNCHANGED recVars
  /\ UNCHANGED upVars
  /\ UNCHANGED <<store, nDel, savedLog, deletedLog>>

\* App.jsx 21-23: the loadVideos of the mount effect resolves
MountLoaded ==
  /\ IsNext("getAll", "M", 0)
  /\ dbq' = Tail(dbq)
  /\ videos' = store
  /\ UNCHANGED envVars
  /\ UNCHANGED recVars
  /\ UNCHANGED upVars
  /\ UNCHANGED <<store, nDel, savedLog, deletedLog>>

(***************************************************************************)
(* The application, opened on an empty store.                              *)
(***************************************************************************)
\* the state of the page after its first render, on the store st at time t
Mounted(st, t) ==
  /\ now = t
  /\ netChanges = 0
  /\ online = navOnLine
  /\ store = st
  /\ dbq = <<Request("getAll", "M", 0, Null, NoVideo)>>
  /\ videos = Empty
  /\ recording = FALSE
  /\ stream = Null
  /\ mediaRecorderRef = Null
  /\ chunksRef = Empty
  /\ sess = [s \in Sessions |->
               [pc |-> "unused", released |-> FALSE, saved |-> NoVideo,
                delivered |-> <<>>]]
  /\ nSess = 0
  /\ timerRef = Null
  /\ timers = {}
  /\ recordingTime = 0
  /\ cameraError = NoError
  /\ uploadingId = Null
  /\ uploadProgress = Empty
  /\ up = [u \in Uploads |-> NoUpload]
  /\ nUp = 0
  /\ nDel = 0
  /\ savedLog = {st[id] : id \in DOMAIN st}
  /\ confirmedLog = {}
  /\ deletedLog = {}

Init ==
  /\ navOnLine = TRUE
  /\ configured = TRUE
  /\ script = <<>>
  /\ Mounted(Empty, 1)

\* what the transport does in the runs that do not script it
AppOutcomes ==
  {OnLoad(200, BodyUploaded), OnLoad(400, BodyError(HostBadPreset)), OnError}

Environment ==
  \/ now <= MaxClock /\ Tick
  \/ netChanges < MaxNetChanges /\ NetChange
  \/ OnlineEvent

Recorder ==
  \/ nSess < MaxSessions /\ StartRecording
  \/ \E s \in Sessions : GetUserMediaReject(s)
  \/ \E s \in Sessions : GetUserMediaResolve(s)
  \/ StopRecording
  \/ \E s \in Sessions, size \in {0, 1} : DataAvailable(s, size)
  \/ recordingTime < MaxRecordingTime /\ IntervalTick
  \/ \E s \in Sessions : OnStop(s)
  \/ \E s \in Sessions : SaveVideoPut(s)
  \/ \E s \in Sessions : SaveVideoFail(s)
  \/ \E s \in Sessions : OnStopLoaded(s)

Uploader ==
  \/ \E u \in Uploads : UploadGetVideos(u)
  \/ \E u \in Uploads, l \in 0..ProgressTotal : XhrProgress(u, l)
  \/ \E u \in Uploads, o \in AppOutcomes :
       /\ o = OnError => up[u].retryCount < MaxTransient
       /\ XhrSettle(u, o)
  \/ \E u \in Uploads : RetryAfterSleep(u)
  \/ \E u \in Uploads : UpdateVideoGet(u)
  \/ \E u \in Uploads : UpdateVideoPut(u)
  \/ \E u \in Uploads : UploadLoaded(u)
  \/ \E u \in Uploads : ClearProgress(u)

Deleter ==
  \/ nDel < MaxDeletes /\ \E id \in DOMAIN videos : HandleDelete(id)
  \/ DeleteVideoDone
  \/ DeleteLoaded

Next ==
  \/ MountLoaded
  \/ Environment
  \/ Recorder
  \/ nUp < MaxUploads /\ \E id \in DOMAIN videos : UploadVideo(id)
  \/ Uploader
  \/ Deleter

Spec == Init /\ [][Next]_vars

(***************************************************************************)
(* The application, opened on a store that holds two recordings of an      *)
(* earlier visit; nothing is recorded.                                     *)
(***************************************************************************)
StoredVideo(t) ==
  NewVideo(NewBlob(<<[s |-> 0, size |-> 1]>>, TypeWebm), t)

InitStored ==
  /\ navOnLine = TRUE
  /\ configured = TRUE
  /\ script = <<>>
  /\ Mounted(Put(Put(Empty, 1, StoredVideo(1)), 2, StoredVideo(2)), 3)

NextStored ==
  \/ MountLoaded
  \/ nUp < MaxStoredUploads /\ \E id \in DOMAIN videos : UploadVideo(id)
  \/ Uploader
  \/ Deleter

SpecStored == InitStored /\ [][NextStored]_vars

(***************************************************************************)
(* One upload under a scripted transport: the application opened on a      *)
(* store that holds one video, whose blob is an input, with or without the *)
(* configuration.                                                          *)
(***************************************************************************)
\* transport failures that are worth a retry
Transients == {OnError, OnTimeout, OnLoad(503, BodyError(HostGatewayTimeout))}

\* how a transport may end a chain
Finals ==
  Transients \cup
  {OnLoad(200, BodyUploaded), OnLoad(200, BodyEmptyObject),
   OnLoad(200, BodyNotJson), OnLoad(400, BodyError(HostBadPreset)),
   OnLoad(400, BodyNotJson), OnLoad(400, BodyError(HostConnReset))}

\* the scripts: up to MAX_RETRIES transient failures, then a final outcome
Scripts ==
  UNION {{t \o <<f>> : t \in [1..k -> Transients], f \in Finals} : k \in 0..MAX_RETRIES}

BlobInputs ==
  {[data |-> <<>>, size |-> n, type |-> ty] :
     n \in {0, 1, MAX_FILE_SIZE, MAX_FILE_SIZE + 1}, ty \in {TypeWebm, TypePng}}

\* the script matters to a chain that gets as far as the transport; one
\* script stands for all when the configuration or the blob stops it before
InitUpload ==
  /\ navOnLine = TRUE
  /\ configured \in BOOLEAN
  /\ script \in Scripts
  /\ \E b \in BlobInputs :
       /\ PreconditionError(configured, b, TRUE) # NoError
            => script = <<OnLoad(200, BodyUploaded)>>
       /\ Mounted(Put(Empty, 1, NewVideo(b, 1)), 2)

NextUpload ==
  \/ MountLoaded
  \/ netChanges < MaxNetChanges /\ NetChange
  \/ OnlineEvent
  \/ nUp < MaxScriptedUploads /\ \E id \in DOMAIN videos : UploadVideo(id)
  \/ \E u \in Uploads : UploadGetVideos(u)
  \/ \E u \in Uploads, l \in 0..ProgressTotal : XhrProgress(u, l)
  \/ \E u \in Uploads, o \in Outcomes : XhrSettle(u, o)
  \/ \E u \in Uploads : RetryAfterSleep(u)
  \/ \E u \in Uploads : UpdateVideoGet(u)
  \/ \E u \in Uploads : UpdateVideoPut(u)
  \/ \E u \in Uploads : UploadLoaded(u)
  \/ \E u \in Uploads : ClearProgress(u)
  \/ Deleter

SpecUpload == InitUpload /\ [][NextUpload]_vars

(***************************************************************************)
(* The recorder alone, with the steps the program takes by itself taken    *)
(* eventually: a pending getUserMedia, recorder event, IndexedDB request   *)
(* or handler continuation does not wait for ever.  The clicks are free.   *)
(***************************************************************************)
ProgramStep ==
  \/ MountLoaded
  \/ \E s \in Sessions : GetUserMediaReject(s)
  \/ \E s \in Sessions : GetUserMediaResolve(s)
  \/ \E s \in Sessions, size \in {0, 1} : DataAvailable(s, size)
  \/ \E s \in Sessions : OnStop(s)
  \/ \E s \in Sessions : SaveVideoPut(s)
  \/ \E s \in Sessions : SaveVideoFail(s)
  \/ \E s \in Sessions : OnStopLoaded(s)

NextRecorder ==
  \/ MountLoaded
  \/ now <= MaxClock /\ Tick
  \/ Recorder

SpecRecorder == Init /\ [][NextRecorder]_vars /\ WF_vars(ProgramStep)

(***************************************************************************)
(* The uploads on the stored recordings, with every pending step of the    *)
(* program taken eventually: an XMLHttpRequest settles (at the latest by   *)
(* its timeout), an IndexedDB request completes, a sleep and the timer of  *)
(* the finally end.  The clicks and the progress events are free.          *)
(***************************************************************************)
SettleStep ==
  \/ MountLoaded
  \/ \E u \in Uploads : UploadGetVideos(u)
  \/ \E u \in Uploads, o \in AppOutcomes :
       /\ o = OnError => up[u].retryCount < MaxTransient
       /\ XhrSettle(u, o)
  \/ \E u \in Uploads : RetryAfterSleep(u)
  \/ \E u \in Uploads : UpdateVideoGet(u)
  \/ \E u \in Uploads : UpdateVideoPut(u)
  \/ \E u \in Uploads : UploadLoaded(u)
  \/ \E u \in Uploads : ClearProgress(u)
  \/ DeleteVideoDone
  \/ DeleteLoaded

SpecSettle == InitStored /\ [][NextStored]_vars /\ WF_vars(SettleStep)

(***************************************************************************)
(* Properties.                                                             *)
(***************************************************************************)
\* the invocations that have started and whose record is still kept
Live == {u \in Uploads : up[u].pc \notin {"unused", "done"}}

\* C1: once saveVideo has resolved in onstop, the video it built is among
\* the videos put (each put with uploaded = false); the transport is invoked
\* only with an id and a blob that a saveVideo has put before and that was in
\* the store when uploadVideo read it; and an upload of an id that is not in
\* the store fails without a transport invocation.
C1_StoredBeforeTransport ==
  /\ \A v \in savedLog : ~v.uploaded
  /\ \A s \in Sessions :
       sess[s].pc \in {"loading", "done"} => sess[s].saved \in savedLog
  /\ \A u \in Live :
       /\ up[u].attempts > 0 =>
            /\ up[u].inStore
            /\ \E v \in savedLog : v.id = up[u].id /\ v.blob = up[u].blob
       /\ (up[u].res = Threw(MsgNotFound) /\ up[u].pc = "settled") =>
            up[u].attempts = 0

\* a recording was finalized and the transport is carrying its blob
C1_Witness ==
  \E u \in Live, s \in Sessions :
    /\ sess[s].pc = "done"
    /\ up[u].attempts > 0
    /\ up[u].id = sess[s].saved.id
    /\ up[u].blob = sess[s].saved.blob

\* an upload of a deleted video has failed as not found
C1_WitnessNotFound ==
  \E u \in Live : up[u].res = Threw(MsgNotFound)

\* C2: whatever the uploads do (success, permanent failure, retries, retry
\* exhaustion), every id that saveVideo has put and deleteVideo has not
\* deleted is in the store, with the blob and the createdAt it was saved
\* with.
C2_OnlyDeleteRemoves ==
  /\ \A v \in savedLog : v.id \in DOMAIN store \/ v.id \in deletedLog
  /\ \A id \in DOMAIN store :
       \E v \in savedLog :
         /\ v.id = id
         /\ v.blob = store[id].blob
         /\ v.createdAt = store[id].createdAt

\* an upload has failed after its last retry and the video is in the store
C2_Witness ==
  \E u \in Live :
    /\ up[u].pc = "settled"
    /\ up[u].outcome = "failed"
    /\ up[u].attempts = MAX_RETRIES + 1
    /\ up[u].id \in DOMAIN store
    /\ deletedLog = {}

\* C3: once deleteVideo(id) has completed, the video with that id is absent
\* from the store and stays absent (no recording is made in these runs).
C3_NoResurrection ==
  \A id \in deletedLog : id \notin DOMAIN store

\* C4: under an id that stays in the store, uploaded never goes back from
\* true to false and the blob and createdAt never change.
C4_Immutable ==
  [][\A id \in (DOMAIN store) \cap (DOMAIN store') :
       /\ store[id].uploaded => store'[id].uploaded
       /\ store'[id].blob = store[id].blob
       /\ store'[id].createdAt = store[id].createdAt]_vars

\* C5: in a run with one finalized recording and no deletion, the store holds
\* exactly the video saved, with uploaded = false until an upload's
\* updateVideo has written, and once an uploadVideo of it has completed with
\* success the stored video is the saved one with only uploaded changed to
\* true.
C5_EndToEnd ==
  (Cardinality(savedLog) = 1 /\ nDel = 0) =>
    \A v \in savedLog :
      /\ DOMAIN store = {v.id}
      /\ store[v.id] \in {v, [v EXCEPT !.uploaded = TRUE]}
      /\ (\A u \in Uploads : up[u].pc \in {"unused", "getVideos", "xhr", "sleep", "updGet"})
           => store[v.id] = v
      /\ \A u \in Uploads :
           up[u].outcome = "success" => store[v.id] = [v EXCEPT !.uploaded = TRUE]

\* record, stop, upload: the upload of the one recording has succeeded
C5_Witness ==
  /\ Cardinality(savedLog) = 1
  /\ nDel = 0
  /\ \E u \in Uploads, s \in Sessions :
       /\ up[u].outcome = "success"
       /\ sess[s].pc = "done"
       /\ up[u].id = sess[s].saved.id

\* C6: a stored video has uploaded = true only if uploadToCloudinary has
\* returned success for that id and that blob.
C6_UploadedOnlyAfterSuccess ==
  \A id \in DOMAIN store :
    store[id].uploaded => <<id, store[id].blob>> \in confirmedLog

\* the chain of uploadToCloudinary calls of invocation u has ended
Ended(u) == up[u].res.state # "pending" /\ up[u].pc # "sleep"

C8_TransientAbsorbed ==
  \A u \in Live :
    (/\ script # <<>>
     /\ script[Len(script)] = OnLoad(200, BodyUploaded)
     /\ Len(script) <= MAX_RETRIES + 1
     /\ \A n \in 1..(Len(script) - 1) : script[n] \in Transients
     /\ up[u].attempts >= 1
     /\ Ended(u))
    => \/ /\ up[u].res.state = "returned"
          /\ up[u].res.value.success
          /\ up[u].attempts = Len(script)
          /\ up[u].outcome # "failed"
       \/ /\ netChanges > 0
          /\ up[u].res = Threw(MsgOffline)

\* fail, fail, succeed has ended in success
C8_Witness ==
  \E u \in Live :
    /\ script = <<OnError, OnTimeout, OnLoad(200, BodyUploaded)>>
    /\ up[u].outcome = "success"
    /\ up[u].attempts = 3

\* C9: when a chain has returned success, the values its onProgress
\* callback received over the whole chain were non-decreasing and the last
\* one was 100.
C9_ProgressMonotone ==
  \A u \in Live :
    up[u].res.state = "returned" => up[u].mono /\ up[u].lastP = 100

\* a chain has returned success after a retry
C9_Witness ==
  \E u \in Live : up[u].res.state = "returned" /\ up[u].retryCount > 0

\* a message that no transient indicator matches, as written or lower-cased
NonTransient(message) ==
  \A k \in 1..Len(retryableMessages) :
    /\ ~includes(message, retryableMessages[k])
    /\ ~includes(toLowerCase(message), retryableMessages[k])

\* C10: when the first response of a chain is a non-2xx response whose host
\* message matches no transient indicator (or whose body carries none), the
\* chain ends there: one transport invocation, no wait, no retry, and the
\* error thrown to uploadVideo contains the host message, or "status N"
\* when the body carries none.
C10_TerminalNon2xx ==
  \A u \in Live :
    (/\ script # <<>>
     /\ script[1].ev = "load"
     /\ ~ResponseOk(script[1])
     /\ (script[1].body.json /\ script[1].body.error # Undefined)
          => NonTransient(script[1].body.error)
     /\ up[u].attempts >= 1
     /\ ~(up[u].pc = "xhr" /\ up[u].attempts = 1))
    => /\ up[u].pc = "settled"
       /\ up[u].outcome = "failed"
       /\ up[u].attempts = 1
       /\ up[u].retryCount = 0
       /\ up[u].waited = 0
       /\ up[u].res.state = "threw"
       /\ IF script[1].body.json /\ script[1].body.error # Undefined
            THEN \A i \in 1..Len(script[1].body.error) :
                   includes(up[u].res.error, script[1].body.error[i])
            ELSE /\ includes(up[u].res.error, "status ")
                 /\ includes(up[u].res.error, StatusText(script[1].status))

\* 400 with the message "bad preset" has ended the chain
C10_Witness ==
  \E u \in Live :
    /\ script = <<OnLoad(400, BodyError(HostBadPreset))>>
    /\ up[u].pc = "settled"
    /\ up[u].attempts = 1
    /\ up[u].res = Threw(HostBadPreset)

\* invocation u calls uploadToCloudinary in this step: the first call, made
\* when getVideos has returned the video, or the call that follows a sleep
Calls(u) ==
  \/ up[u].pc = "getVideos" /\ up'[u].pc # "getVideos" /\ up[u].id \in DOMAIN store
  \/ up[u].pc = "sleep" /\ up'[u].pc # "sleep"

\* the blob that call is made with
CallBlob(u) == IF up[u].pc = "getVideos" THEN store[up[u].id].blob ELSE up[u].blob

\* a payload validateVideo is to reject
Invalid(blob) ==
  blob.size = 0 \/ blob.size > 104857600 \/ blob.type[1] # "video/"

\* C11: a call of uploadToCloudinary made without the configuration, with an
\* invalid payload or while navigator.onLine is false ends the chain in that
\* step with the error of a failed precondition (the offline error only when
\* offline, the configuration error only when not configured, a validation
\* error only for an invalid payload), without a transport invocation, a
\* sleep or a further call; the first call of a chain fails so with no retry
\* counted and no wait; and the transport is invoked only when all three
\* preconditions hold.
C11_PreconditionTerminal ==
  [][\A u \in Uploads :
       /\ up'[u].attempts > up[u].attempts =>
            configured /\ ~Invalid(up'[u].blob) /\ navOnLine
       /\ (Calls(u) /\ (~configured \/ Invalid(CallBlob(u)) \/ ~navOnLine)) =>
            /\ up'[u].pc = "settled"
            /\ up'[u].outcome = "failed"
            /\ up'[u].attempts = up[u].attempts
            /\ up'[u].res.state = "threw"
            /\ up'[u].res.error # NoError
            /\ up'[u].res.error = MsgNotConfigured <=> ~configured
            /\ up'[u].res.error = MsgOffline <=>
                 (configured /\ ~Invalid(CallBlob(u)) /\ ~navOnLine)
            /\ up[u].pc = "getVideos" =>
                 up'[u].retryCount = 0 /\ up'[u].waited = 0]_vars

\* the first call of a chain has failed with the offline error, whose
\* message isRetryableError would match
C11_Witness ==
  \E u \in Live :
    /\ up[u].pc = "settled"
    /\ up[u].res = Threw(MsgOffline)
    /\ isRetryableError(up[u].res.error)
    /\ up[u].attempts = 0
    /\ up[u].retryCount = 0

\* the messages of a list that contain token t
Naming(errors, t) == {i \in 1..Len(errors) : includes(errors[i], t)}

\* C12: for the payload in the store, validateVideo answers valid exactly
\* when 0 < size <= 104857600 and the type starts with "video/"; its errors
\* hold the 'empty' message iff size = 0, the 'exceeds limit' message iff
\* size > 104857600, the 'invalid file type' message iff the type is not
\* video, each once and nothing else, and no two of them are the same
\* message; and a configured upload of an invalid payload throws these
\* messages joined.
C12_ValidateVideo ==
  \A id \in DOMAIN store :
    LET b == store[id].blob
        r == validateVideo(b)
        empty == Naming(r.errors, "Video file is empty")
        large == Naming(r.errors, "exceeds limit")
        type == Naming(r.errors, "Invalid file type. Expected video file")
    IN  /\ r.valid <=> (b.size > 0 /\ b.size <= 104857600 /\ b.type[1] = "video/")
        /\ r.valid <=> r.errors = <<>>
        /\ empty # {} <=> b.size = 0
        /\ large # {} <=> b.size > 104857600
        /\ type # {} <=> b.type[1] # "video/"
        /\ Cardinality(empty) <= 1 /\ Cardinality(large) <= 1 /\ Cardinality(type) <= 1
        /\ empty \cap large = {} /\ empty \cap type = {} /\ large \cap type = {}
        /\ empty \cup large \cup type = 1..Len(r.errors)
        /\ \A i, j \in 1..Len(r.errors) : i # j => r.errors[i] # r.errors[j]
        /\ \A u \in Live :
             (/\ up[u].pc = "settled"
              /\ up[u].id = id
              /\ up[u].blob = b
              /\ configured
              /\ ~r.valid)
             => up[u].res = Threw(join(r.errors))

\* an upload of an empty payload that is not a video has thrown both
\* messages
C12_Witness ==
  \E u \in Live :
    /\ up[u].pc = "settled"
    /\ up[u].blob.size = 0
    /\ up[u].blob.type = TypePng
    /\ up[u].res = Threw(MsgEmpty \o <<". ">> \o MsgBadType)

\* a message of the validation kind: it names a violation of the payload
ValidationKind(message) ==
  \/ includes(message, "Video file is empty")
  \/ includes(message, "exceeds limit")
  \/ includes(message, "Invalid file type. Expected video file")

\* C13: a call of uploadToCloudinary throws the error of the first failing
\* precondition in the order configuration, validation, connectivity: the
\* configuration error whenever the configuration is missing, a validation
\* error when it is present and the payload is invalid, the offline error
\* when only the connectivity fails; and no message is of two kinds.
C13_PreconditionOrder ==
  [][\A u \in Uploads :
       Calls(u) =>
         LET e == up'[u].res.error
         IN  /\ ~configured => up'[u].res = Threw(MsgNotConfigured)
             /\ (configured /\ Invalid(CallBlob(u))) =>
                  /\ up'[u].res.state = "threw"
                  /\ ValidationKind(e)
             /\ (configured /\ ~Invalid(CallBlob(u)) /\ ~navOnLine) =>
                  up'[u].res = Threw(MsgOffline)
             /\ ~(ValidationKind(e) /\ e = MsgNotConfigured)
             /\ ~(ValidationKind(e) /\ e = MsgOffline)
             /\ ~ValidationKind(MsgNotConfigured)
             /\ ~ValidationKind(MsgOffline)
             /\ MsgNotConfigured # MsgOffline]_vars

\* all three preconditions failed at once and the configuration error was
\* thrown
C13_Witness ==
  \E u \in Live :
    /\ ~configured
    /\ Invalid(up[u].blob)
    /\ ~navOnLine
    /\ up[u].pc = "settled"
    /\ up[u].attempts = 0
    /\ up[u].res = Threw(MsgNotConfigured)

\* an invalid payload was rejected as such while offline
C13_WitnessValidation ==
  \E u \in Live :
    /\ configured
    /\ Invalid(up[u].blob)
    /\ ~navOnLine
    /\ up[u].pc = "settled"
    /\ up[u].attempts = 0
    /\ ValidationKind(up[u].res.error)

\* C14: when uploadToCloudinary has returned success, the response of the
\* last transport invocation was a 2xx response, and the result carries the
\* remote URL and the public identifier of its body.
C14_ConfirmedSuccess ==
  \A u \in Live :
    (up[u].res.state = "returned" /\ up[u].res.value.success /\ script # <<>>) =>
      LET o == Scripted(up[u].attempts)
      IN  /\ o.ev = "load"
          /\ ResponseOk(o)
          /\ o.body.json
          /\ up[u].res.value.url # Undefined
          /\ up[u].res.value.publicId # Undefined

\* success was returned for a 2xx response that carries the URL
C14_Witness ==
  \E u \in Live :
    /\ up[u].res.state = "returned"
    /\ up[u].res.value.success
    /\ up[u].res.value.url = BodyUploaded.secure_url
    /\ Scripted(up[u].attempts) = OnLoad(200, BodyUploaded)

\* C15: when the transport fails with a transient error on all
\* MAX_RETRIES + 1 = 4 attempts of a chain (and no retry is stopped by a
\* failed precondition), the chain ends failed after the 4th attempt and the
\* error thrown to uploadVideo is the error of that attempt.
C15_LastErrorSurfaced ==
  \A u \in Live :
    (/\ Len(script) = MAX_RETRIES + 1
     /\ \A n \in 1..Len(script) : script[n] \in Transients
     /\ up[u].pc = "settled"
     /\ up[u].attempts >= 1
     /\ up[u].res # Threw(MsgOffline))
    => /\ up[u].outcome = "failed"
       /\ up[u].attempts = 4
       /\ up[u].res = Threw(TryBlock(script[4]).error)

\* three network errors and then a timeout: the timeout was thrown
C15_Witness ==
  \E u \in Live :
    /\ script = <<OnError, OnError, OnError, OnTimeout>>
    /\ up[u].pc = "settled"
    /\ up[u].attempts = 4
    /\ up[u].res = Threw(MsgTimeout)

\* uploadVideo invocation u has started and has not reached its finally
InFlight(u) ==
  up[u].pc \in {"getVideos", "xhr", "sleep", "updGet", "updPut", "loading"}

\* C16: while the upload of one video is in flight, a step of an upload of
\* another video that has started before (a progress event, a settlement of
\* its transport, its updateVideo, its completion, its clearing timer)
\* leaves the progress entry of the first video as it is and does not take
\* the uploading indication from it.
C16_Independent ==
  [][\A a, b \in Uploads :
       (/\ a # b
        /\ up[a].id # up[b].id
        /\ InFlight(a)
        /\ up'[a] = up[a]
        /\ up[b].pc \notin {"unused", "done"}
        /\ up'[b] # up[b])
       => /\ up[a].id \in DOMAIN uploadProgress <=> up[a].id \in DOMAIN uploadProgress'
          /\ up[a].id \in DOMAIN uploadProgress =>
               uploadProgress'[up[a].id] = uploadProgress[up[a].id]
          /\ uploadingId = up[a].id => uploadingId' = up[a].id]_vars

\* the transports of two uploads of different videos are busy at once
C16_Witness ==
  \E a, b \in Uploads :
    /\ up[a].id # up[b].id
    /\ up[a].pc = "xhr"
    /\ up[b].pc = "xhr"

\* the onstop handler of session s runs in this step
OnStopRuns(s) ==
  sess[s].pc \in {"stopped", "saving", "loading"} /\ sess'[s].pc # sess[s].pc

\* C17: a step of the onstop handler of a session releases the tracks of its
\* stream, clears the interval or sets recordingTime only when the saveVideo
\* of that session has resolved before the step.
C17_ReleaseAfterWrite ==
  [][\A s \in Sessions :
       (OnStopRuns(s) /\ sess[s].pc # "loading") =>
         /\ sess'[s].released = sess[s].released
         /\ timers' = timers
         /\ recordingTime' = recordingTime]_vars

\* the write of a session is pending, its interval is cleared and its
\* tracks are live
C17_Witness ==
  \E s \in Sessions :
    /\ sess[s].pc = "saving"
    /\ timerRef = s
    /\ s \notin timers
    /\ ~sess[s].released

\* C18: the tracks of the stream of every session whose recorder was
\* stopped are stopped eventually, with no click needed.
C18_StreamReleased ==
  \A s \in Sessions : (sess[s].pc = "stopping") ~> sess[s].released

\* a finalization has ended with the tracks stopped
C18_Witness ==
  \E s \in Sessions : sess[s].pc = "done" /\ sess[s].released

\* C19: when a finalization has ended without a video stored, because
\* saveVideo failed, the program has reported an error: the recorder's error
\* state cameraError is set.
C19_WriteFailureReported ==
  \A s \in Sessions : sess[s].pc = "failed" => cameraError # NoError

\* a finalization has ended with its video stored and no error reported
C19_Witness ==
  \E s \in Sessions :
    /\ sess[s].pc = "done"
    /\ sess[s].saved \in savedLog
    /\ cameraError = NoError

\* the recorder of session s was stopped and its saveVideo has not completed
Finalizing(s) == sess[s].pc \in {"stopping", "stopped", "saving"}

\* C20: a stop request acts on a capturing recorder only, and no recording
\* is started while the saveVideo of a stopped recorder has not completed.
C20_RecorderCycle ==
  [][/\ \A s \in Sessions :
          (recording /\ ~recording' /\ sess'[s].pc # sess[s].pc) =>
            sess[s].pc = "capturing" /\ sess'[s].pc = "stopping"
     /\ nSess' > nSess => \A s \in Sessions : ~Finalizing(s)]_vars

\* a recording was started after the finalization of another had ended
C20_Witness ==
  \E s, t \in Sessions :
    /\ sess[s].pc = "done"
    /\ sess[t].pc = "capturing"
    /\ recording

\* C21: every saveVideo that succeeds stores its video under an id that is
\* not in the store, so that the store grows by one video.
C21_UniqueIds ==
  [][\A s \in Sessions :
       (sess[s].pc = "saving" /\ sess'[s].pc = "loading") =>
         /\ sess[s].saved.id \notin DOMAIN store
         /\ Cardinality(DOMAIN store') = Cardinality(DOMAIN store) + 1
         /\ \A id \in DOMAIN store : store'[id] = store[id]]_vars

\* two recordings are stored under two ids
C21_Witness ==
  /\ Cardinality(DOMAIN store) = 2
  /\ \E s, t \in Sessions :
       /\ s # t
       /\ sess[s].pc = "done"
       /\ sess[t].pc = "done"
       /\ sess[s].saved.id # sess[t].saved.id

\* C22: when the sleep that follows a transient failure is over, the
\* transport is invoked again, whatever the configuration, the payload and
\* navigator.onLine are then.
C22_RetryFromTransfer ==
  [][\A u \in Uploads :
       (up[u].pc = "sleep" /\ up'[u].pc # "sleep") =>
         up'[u].pc = "xhr" /\ up'[u].attempts = up[u].attempts + 1]_vars

\* a retry has invoked the transport while the network signal was on
C22_Witness ==
  \E u \in Live :
    /\ up[u].pc = "xhr"
    /\ up[u].retryCount = 1
    /\ up[u].attempts = 2
    /\ navOnLine

C24_OwnChunks ==
  \A s \in Sessions :
    sess[s].pc \in {"saving", "loading", "done", "failed"} =>
      sess[s].saved.blob.data = sess[s].delivered

\* a recording that delivered a chunk was saved with that chunk
C24_Witness ==
  \E s \in Sessions :
    /\ sess[s].pc = "done"
    /\ sess[s].delivered # <<>>
    /\ sess[s].saved.blob.data = sess[s].delivered

\* C25: while an uploadVideo of a video is in flight, the buttons of that
\* video are disabled (uploadingId is its id, which is what disables its
\* Upload and Delete buttons), and no second uploadVideo of the same id is
\* in flight.
C25_UploadExclusion ==
  /\ \A u \in Uploads : InFlight(u) => uploadingId = up[u].id
  /\ \A u, v \in Uploads :
       (u # v /\ InFlight(u) /\ InFlight(v)) => up[u].id # up[v].id

\* an upload is in flight and its video's buttons are disabled
C25_Witness ==
  \E u \in Uploads :
    /\ up[u].pc = "xhr"
    /\ uploadingId = up[u].id
    /\ up[u].id \in DOMAIN videos

\* the video of upload u is shown as uploading: the spinner of its button
\* (uploadingId) or its progress bar (an entry of uploadProgress)
ShownUploading(u) ==
  \/ uploadingId = up[u].id
  \/ up[u].id \in DOMAIN uploadProgress

\* C26: every uploadVideo invocation that has started reaches its end
\* (success, or a failure reported, and the timer of its finally fired), and
\* from some moment on its video is no longer shown as uploading: uploadingId
\* is not its id and uploadProgress has no entry for its id.
C26_UploadSettles ==
  \A u \in Uploads :
    <>[](\/ up[u].pc = "unused"
         \/ /\ up[u].pc = "done"
            /\ up[u].outcome \in {"success", "failed"}
            /\ ~ShownUploading(u))

\* the part of C26 that the code keeps: every started invocation reaches its
\* end, and at that moment its own entry has just been removed
C26_ReachesEnd ==
  \A u \in Uploads :
    (up[u].pc = "getVideos") ~>
      (up[u].pc = "done" /\ up[u].outcome \in {"success", "failed"})

\* an upload has ended, no upload is in flight or waiting for its timer, and
\* the video of the ended upload still has a progress entry
C26_Witness ==
  \E u \in Uploads :
    /\ up[u].pc = "done"
    /\ \A v \in Uploads : up[v].pc \in {"unused", "done"}
    /\ up[u].id \in DOMAIN uploadProgress

=============================================================================
